---- MODULE Spec2Model ----
(***************************************************************************)
(* The def-use graph of mlir (Values, operand slots, use ledgers) and the  *)
(* ConstantFold function pass of lib/Transforms/ConstantFold.cpp.          *)
(*                                                                         *)
(* A Value is a pair <<op, i>>: result i of Operation op.  Arg, with       *)
(* defining Operation 0 (nullptr), is the function argument.  A Use is a   *)
(* pair <<op, j>>: operand slot j of Operation op.                         *)
(*                                                                         *)
(* body lists the Operations of the function in the order in which walk    *)
(* visits them.  The walk follows the structure of the function, not its   *)
(* control flow: the blocks of a function are listed in any order, so an   *)
(* Operation can come before the Operation that defines its operand.       *)
(***************************************************************************)
EXTENDS Integers, Sequences, FiniteSets, TLC

\* Bounds of the model.
MaxOps == 3     \* Operations the builder puts in the function body
MaxRuns == 3    \* consecutive runs of one pass instance

\* Attribute operandCst = nullptr: the placeholder of a non-constant operand.
NoCst == -1

\* The function argument: a Value with no defining Operation.
Arg == <<0, 1>>

\* Operation kinds of the model: the constant, an operation that folds when
\* all its operands are constant (add), a two-result one that does (pair),
\* one that folds whatever its operand is (dim of a static shape), and two
\* whose fold hooks break the contract: broken returns more payloads than the
\* Operation has results, short returns fewer.
Kinds == {"const", "add", "pair", "dim", "broken", "short"}

\* The kinds whose fold hook returns the wrong number of payloads.
BrokenKinds == {"broken", "short"}

getNumOperands(k) == CASE k = "const" -> 0 [] k = "add" -> 2 [] OTHER -> 1

getNumResults(k) == IF k \in {"pair", "short"} THEN 2 ELSE 1

\* Whether the kind's fold hook needs every operand to be a constant.
RequiresAllConstant(k) == k \in {"add", "pair"}

VARIABLES
  NDEBUG,             \* whether the build compiles assert out
  ops,                \* id -> [kind, value, loc, types, operands]
  uses,               \* Value -> set of Uses: the use ledger
  body,               \* the function body: Operation ids in order
  insertionPoint,     \* where the client's builder puts Operations
  pc,                 \* where the program is
  run,                \* runs of the pass finished so far
  walkOp,             \* the Operation the walk is at (0: past the end)
  existingConstants,  \* SmallVector<Value *, 8>
  opInstsToErase,     \* std::vector<Operation *>
  resultConstants,    \* foldOperation's local
  resIdx,             \* foldOperation's loop variable i (1-based)
  cst,                \* foldOperation's local: the constant just created
  sweepIdx,           \* position of the two erase loops of runOnFunction
  hist                \* observations of the run, for the properties

vars == <<NDEBUG, ops, uses, body, insertionPoint, pc, run, walkOp, existingConstants, opInstsToErase,
          resultConstants, resIdx, cst, sweepIdx, hist>>

passVars == <<existingConstants, opInstsToErase>>
foldVars == <<resultConstants, resIdx, cst>>

----------------------------------------------------------------------------
\* Helpers on the graph

Range(s) == {s[i] : i \in 1..Len(s)}

IndexOf(s, x) == CHOOSE i \in 1..Len(s) : s[i] = x

Remove(s, x) == SelectSeq(s, LAMBDA y : y # x)

\* Mutant: the builder inserts after the Operation.
InsertAfter(s, x, new) ==
  LET i == IndexOf(s, x)
  IN  SubSeq(s, 1, i) \o <<new>> \o SubSeq(s, i + 1, Len(s))

InsertBefore(s, x, new) ==
  LET i == IndexOf(s, x)
  IN  SubSeq(s, 1, i - 1) \o <<new>> \o SubSeq(s, i, Len(s))

\* The Operation after x in the body, 0 at the end.
NextInBody(s, x) ==
  LET i == IndexOf(s, x) IN IF i < Len(s) THEN s[i + 1] ELSE 0

nextId == Cardinality(DOMAIN ops) + 1

getResults(o, op) == {<<op, i>> : i \in 1..getNumResults(o[op].kind)}

\* Values of the graph: the argument and the results of Operations in the body.
Values(o, b) == {Arg} \cup UNION {getResults(o, op) : op \in Range(b)}

getDefiningOp(v) == v[1]

getType(o, v) == IF v = Arg THEN "i32" ELSE o[v[1]].types[v[2]]

use_empty(u, v) == u[v] = {}

\* The operand slots of the Operations of the body.
Slots(o, b) == UNION {{<<op, j>> : j \in 1..Len(o[op].operands)} : op \in Range(b)}

SlotValue(o, s) == o[s[1]].operands[s[2]]

----------------------------------------------------------------------------
\* replaceAllUsesWith

\* IROperand::set: the slot leaves the old ledger, points at the new Value
\* and joins its ledger.
setUse(g, use, old, new) ==
  [ops  |-> [g.ops EXCEPT ![use[1]].operands[use[2]] = new],
   uses |-> [g.uses EXCEPT ![old] = @ \ {use}, ![new] = @ \cup {use}]]

\* Mutant: the slots are rewritten and the old ledger emptied, but the Use
\* records never reach the ledger of the new Value.
replaceAllUsesWithUnlinked(g, old, new) ==
  [ops  |-> [id \in DOMAIN g.ops |->
               [g.ops[id] EXCEPT !.operands =
                  [j \in DOMAIN @ |-> IF <<id, j>> \in g.uses[old] THEN new ELSE @[j]]]],
   uses |-> [g.uses EXCEPT ![old] = {}]]

\* IRObjectWithUseList::replaceAllUsesWith: every Use of the ledger of old,
\* one after the other, is set to new, until the ledger is empty.
RECURSIVE IRObjectWithUseList_replaceAllUsesWith(_, _, _)
IRObjectWithUseList_replaceAllUsesWith(g, old, new) ==
  IF use_empty(g.uses, old) THEN g
  ELSE LET use == CHOOSE x \in g.uses[old] : TRUE
       IN  IRObjectWithUseList_replaceAllUsesWith(setUse(g, use, old, new), old, new)

\* Mutant: the receiver and the argument are swapped.
replaceAllUsesWithSwapped(g, this, newValue) ==
  IRObjectWithUseList_replaceAllUsesWith(g, newValue, this)

\* SSAValue::replaceAllUsesWith(newValue).
replaceAllUsesWith(g, this, newValue) ==
  IRObjectWithUseList_replaceAllUsesWith(g, this, newValue)

----------------------------------------------------------------------------
\* Operation::constantFold of the kinds of the model.

Failure == [ok |-> FALSE, results |-> <<>>]
Success(r) == [ok |-> TRUE, results |-> r]

constantFold(k, operandConstants) ==
  CASE k = "add" ->
         IF operandConstants[1] # NoCst /\ operandConstants[2] # NoCst
           THEN Success(<<operandConstants[1] + operandConstants[2]>>)
           ELSE Failure
    [] k = "pair" ->
         IF operandConstants[1] # NoCst
           THEN Success(<<operandConstants[1], operandConstants[1] + 1>>)
           ELSE Failure
    [] k = "dim" -> Success(<<0>>)
    [] k = "broken" ->
         IF operandConstants[1] # NoCst
           THEN Success(<<operandConstants[1], operandConstants[1]>>)
           ELSE Failure
    [] k = "short" ->
         IF operandConstants[1] # NoCst
           THEN Success(<<operandConstants[1]>>)
           ELSE Failure
    [] OTHER -> Failure

\* Mutant: the check of the defining Operation is lost, and a Value without
\* one passes for the constant 0.
operandConstantsOfUnchecked(o, op) ==
  [j \in 1..Len(o[op].operands) |->
     LET operandOp == getDefiningOp(o[op].operands[j])
     IN  IF operandOp = 0 THEN 0
         ELSE IF o[operandOp].kind = "const" THEN o[operandOp].value ELSE NoCst]

\* Lines 54-62 of foldOperation: the payload of each operand whose defining
\* Operation is a constant, NoCst for the others.
operandConstantsOf(o, op) ==
  [j \in 1..Len(o[op].operands) |->
     LET operandOp == getDefiningOp(o[op].operands[j])
     IN  IF operandOp # 0 /\ o[operandOp].kind = "const"
           THEN o[operandOp].value
           ELSE NoCst]

\* Mutant: the cast never succeeds.
isConstantOpNever(rec) == FALSE

\* Line 47: op->dyn_cast<ConstantOp>().
isConstantOp(rec) == rec.kind = "const"

\* Line 66: failed(op->constantFold(...)).
failed(folded) == ~folded.ok

\* Line 73: resultConstants.size() == op->getNumResults().
arityMatches(results, k) == Len(results) = getNumResults(k)

\* Mutant: the assertion is gone from every build.
assertRemoved(ndebug, condition) == TRUE

\* Lines 73-74, assert(condition): whether execution goes past it.  With
\* NDEBUG the macro expands to nothing; without, a false condition aborts.
assertPasses(ndebug, condition) == ndebug \/ condition

\* What a read of resultConstants past its size can yield: the inline storage
\* of the SmallVector was never written.
UndefPayloads == {NoCst, 0}

\* Mutant: no result is skipped.
isDeadResultNever(u, res) == FALSE

\* Line 79: res->use_empty(), "ignore dead uses".
isDeadResult(u, res) == use_empty(u, res)

\* Mutant: every constant gets the first payload.
payloadOfFirstResult(rc, i) == rc[1]

\* Line 83: the payload of the constant made for result i.
payloadOfResult(rc, i) == rc[i]

\* Mutant: every constant gets the type of the first result.
typeOfFirstResult(o, res) == getType(o, <<res[1], 1>>)

\* Line 82: the type of the constant made for result res.
typeOfConstantFor(o, res) == getType(o, res)

\* Mutant: the constant is not remembered.
forgetConstant(ec, c) == ec

\* Line 48: existingConstants.push_back(constant).
rememberConstant(ec, c) == Append(ec, c)

\* Mutants: the second loop erases every constant, or none.
constantIsDeadAlways(u, c) == TRUE

constantIsDeadNever(u, c) == FALSE

\* Line 114: cst->use_empty().
constantIsDead(u, c) == use_empty(u, c)

\* Mutant: the walk goes bottom-up.
walkOrderBottomUp(b) == [i \in 1..Len(b) |-> b[Len(b) + 1 - i]]

\* Lines 93-100: "a simple top-down pass over a function": the order in
\* which walk hands the Operations of the body to foldOperation.
walkOrder(b) == b

walkFirst(b) == IF b = <<>> THEN 0 ELSE walkOrder(b)[1]

\* Mutant: the walk does not move on.
walkAgain(b, op) == op

walkNext(b, op) == NextInBody(walkOrder(b), op)

\* Where runOnFunction is once foldOperation has returned and the walk has
\* moved to next: in the walk, or past it in the first loop that has
\* something to do.
pcAfterVisit(next, toErase) ==
  IF next # 0 THEN "walk" ELSE IF toErase # <<>> THEN "erase" ELSE "sweep"

----------------------------------------------------------------------------
\* Construction of the function body

\* The history variable.
\* initial: the graph before the first run; pre: the graph when the run began; post: the graph after each of the last two
\* finished runs;
\* folds: one record per Operation folded in this run; erased: the Operations
\* erased in this run, each with the slots that still referenced its results.
\* visited: the Operations that are no constants and that the walk of this
\* run came to, each with its operands at that moment and the constants
\* constantFold was given for them; rauw: the last client call of
\* replaceAllUsesWith.
NoHist == [initial |-> <<>>, pre |-> <<>>, post |-> <<>>, folds |-> <<>>, visited |-> <<>>,
           erased |-> <<>>, rauw |-> <<>>]

\* The function is empty and no run has begun.
InitGraph ==
  /\ ops = <<>>
  /\ uses = (Arg :> {})
  /\ body = <<>>
  /\ insertionPoint \in {"start", "end"}
  /\ pc = "build"
  /\ run = 0
  /\ walkOp = 0
  /\ existingConstants = <<>>
  /\ opInstsToErase = <<>>
  /\ resultConstants = <<>>
  /\ resIdx = 0
  /\ cst = Arg
  /\ sweepIdx = 0
  /\ hist = NoHist

\* A build that keeps assert.  No Operation of Spec breaks the assertion of
\* foldOperation, so the other build behaves the same there.
Init == InitGraph /\ NDEBUG = FALSE

\* The result types of a new Operation of kind k over the given operands.
ResultTypes(o, k, operands) ==
  CASE k = "add" -> <<getType(o, operands[1])>>
    [] k = "pair" -> <<getType(o, operands[1]), "i1">>
    [] k = "dim" -> <<"index">>
    [] k = "broken" -> <<getType(o, operands[1])>>
    [] k = "short" -> <<getType(o, operands[1]), "i1">>

\* The builder puts a new Operation at its insertion point.
Insert(b, id) == IF insertionPoint = "start" THEN <<id>> \o b ELSE Append(b, id)

\* A new Operation with its operand slots registered in the ledgers.
NewOp(g, id, rec) ==
  [ops  |-> g.ops @@ (id :> rec),
   uses |-> [v \in DOMAIN g.uses \cup {<<id, i>> : i \in 1..getNumResults(rec.kind)} |->
               (IF v \in DOMAIN g.uses THEN g.uses[v] ELSE {}) \cup
               {<<id, j>> : j \in {jj \in 1..Len(rec.operands) : rec.operands[jj] = v}}]]

BuildConstant ==
  /\ pc = "build"
  /\ Len(body) < MaxOps
  /\ LET id == nextId
         g == NewOp([ops |-> ops, uses |-> uses], id,
                    [kind |-> "const", value |-> id, loc |-> id,
                     types |-> <<"f32">>, operands |-> <<>>])
     IN  /\ ops' = g.ops
         /\ uses' = g.uses
         /\ body' = Insert(body, id)
  /\ UNCHANGED <<NDEBUG, insertionPoint, pc, run, walkOp, passVars, foldVars, sweepIdx, hist>>

BuildOperation(k, operands) ==
  /\ pc = "build"
  /\ Len(body) < MaxOps
  /\ k # "const"
  /\ Len(operands) = getNumOperands(k)
  /\ LET id == nextId
         g == NewOp([ops |-> ops, uses |-> uses], id,
                    [kind |-> k, value |-> NoCst, loc |-> id,
                     types |-> ResultTypes(ops, k, operands),
                     operands |-> operands])
     IN  /\ ops' = g.ops
         /\ uses' = g.uses
         /\ body' = Insert(body, id)
  /\ UNCHANGED <<NDEBUG, insertionPoint, pc, run, walkOp, passVars, foldVars, sweepIdx, hist>>

----------------------------------------------------------------------------
\* ConstantFold::runOnFunction and ConstantFold::foldOperation

Snapshot == [ops |-> ops, uses |-> uses, body |-> body]

\* Mutant: the two lists are not cleared.
StartRunNoClear ==
  /\ pc \in {"build", "done"}
  /\ run < MaxRuns
  /\ walkOp' = walkFirst(body)
  /\ pc' = pcAfterVisit(walkOp', opInstsToErase)
  /\ sweepIdx' = 1
  /\ hist' = [hist EXCEPT !.initial = IF run = 0 THEN Snapshot ELSE @,
                           !.pre = Snapshot, !.folds = <<>>, !.visited = <<>>,
                           !.erased = <<>>]
  /\ UNCHANGED <<NDEBUG, insertionPoint, ops, uses, body, run, passVars, foldVars>>

\* existingConstants.clear(); opInstsToErase.clear(); the walk begins.
StartRun ==
  /\ pc \in {"build", "done"}
  /\ run < MaxRuns
  /\ existingConstants' = <<>>
  /\ opInstsToErase' = <<>>
  /\ walkOp' = walkFirst(body)
  /\ pc' = pcAfterVisit(walkOp', <<>>)
  /\ sweepIdx' = 1
  /\ hist' = [hist EXCEPT !.initial = IF run = 0 THEN Snapshot ELSE @,
                           !.pre = Snapshot, !.folds = <<>>, !.visited = <<>>,
                           !.erased = <<>>]
  /\ UNCHANGED <<NDEBUG, insertionPoint, ops, uses, body, run, foldVars>>

\* foldOperation, lines 47-50: an Operation that is already a constant.
VisitConstant ==
  /\ pc = "walk"
  /\ walkOp # 0
  /\ isConstantOp(ops[walkOp])
  /\ existingConstants' = rememberConstant(existingConstants, <<walkOp, 1>>)
  /\ walkOp' = walkNext(body, walkOp)
  /\ pc' = pcAfterVisit(walkOp', opInstsToErase)
  /\ UNCHANGED <<NDEBUG, insertionPoint, ops, uses, body, run, opInstsToErase, foldVars,
                 sweepIdx, hist>>

\* Operation::erase: the Operation leaves the body and its operand slots
\* leave the ledgers of the Values they reference.
erase(g, op) ==
  [ops  |-> g.ops,
   uses |-> [v \in DOMAIN g.uses |->
               g.uses[v] \ {<<op, j>> : j \in 1..Len(g.ops[op].operands)}],
   body |-> Remove(g.body, op)]

\* What the history keeps of an erasure: the slots of the remaining
\* Operations that reference a result of the erased one.
ErasedRecord(g, op) ==
  [op |-> op,
   dangling |-> {s \in Slots(g.ops, g.body) : getDefiningOp(SlotValue(g.ops, s)) = op}]

\* What the history keeps of a call of foldOperation: the operands of the
\* Operation and the operandConstants handed to constantFold.
Visit(op) ==
  [op |-> op, operands |-> ops[op].operands, received |-> operandConstantsOf(ops, op)]

\* Mutant: the return is lost and the Operation is queued for erasure.
FoldDeclinedNoReturn ==
  /\ pc = "walk"
  /\ walkOp # 0
  /\ ~isConstantOp(ops[walkOp])
  /\ failed(constantFold(ops[walkOp].kind, operandConstantsOf(ops, walkOp)))
  /\ walkOp' = walkNext(body, walkOp)
  /\ opInstsToErase' = Append(opInstsToErase, walkOp)
  /\ hist' = [hist EXCEPT !.visited = Append(@, Visit(walkOp))]
  /\ pc' = pcAfterVisit(walkOp', opInstsToErase')
  /\ UNCHANGED <<NDEBUG, insertionPoint, ops, uses, body, run, existingConstants, foldVars,
                 sweepIdx>>

\* foldOperation, lines 64-67: constantFold failed, return.
FoldDeclined ==
  /\ pc = "walk"
  /\ walkOp # 0
  /\ ~isConstantOp(ops[walkOp])
  /\ failed(constantFold(ops[walkOp].kind, operandConstantsOf(ops, walkOp)))
  /\ walkOp' = walkNext(body, walkOp)
  /\ hist' = [hist EXCEPT !.visited = Append(@, Visit(walkOp))]
  /\ pc' = pcAfterVisit(walkOp', opInstsToErase)
  /\ UNCHANGED <<NDEBUG, insertionPoint, ops, uses, body, run, passVars, foldVars, sweepIdx>>

\* foldOperation, lines 64-76: constantFold succeeded and execution goes
\* past the assertion on the number of results; the loop over the results
\* begins.
FoldSucceeded ==
  /\ pc = "walk"
  /\ walkOp # 0
  /\ ~isConstantOp(ops[walkOp])
  /\ LET operandConstants == operandConstantsOf(ops, walkOp)
         folded == constantFold(ops[walkOp].kind, operandConstants)
     IN  /\ ~failed(folded)
         /\ assertPasses(NDEBUG, arityMatches(folded.results, ops[walkOp].kind))
         /\ resultConstants' = folded.results
         /\ hist' = [hist EXCEPT !.visited = Append(@, Visit(walkOp)),
                                  !.folds = Append(@,
                       [op |-> walkOp,
                        operands |-> ops[walkOp].operands,
                        used |-> {i \in 1..getNumResults(ops[walkOp].kind) :
                                    ~use_empty(uses, <<walkOp, i>>)},
                        users |-> [i \in 1..getNumResults(ops[walkOp].kind) |->
                                    uses[<<walkOp, i>>]],
                        made |-> <<>>])]
  /\ resIdx' = 1
  /\ pc' = "results"
  /\ UNCHANGED <<NDEBUG, insertionPoint, ops, uses, body, run, walkOp, passVars, cst, sweepIdx>>

\* foldOperation, lines 73-74: the assertion fails and the program aborts.
FoldAssertFailed ==
  /\ pc = "walk"
  /\ walkOp # 0
  /\ ~isConstantOp(ops[walkOp])
  /\ LET folded == constantFold(ops[walkOp].kind, operandConstantsOf(ops, walkOp))
     IN  /\ ~failed(folded)
         /\ ~assertPasses(NDEBUG, arityMatches(folded.results, ops[walkOp].kind))
  /\ pc' = "fatal"
  /\ hist' = [hist EXCEPT !.visited = Append(@, Visit(walkOp))]
  /\ UNCHANGED <<NDEBUG, insertionPoint, ops, uses, body, run, walkOp, passVars, foldVars,
                 sweepIdx>>

\* foldOperation, lines 78-80: a result without uses is skipped.
SkipDeadResult ==
  /\ pc = "results"
  /\ resIdx <= getNumResults(ops[walkOp].kind)
  /\ isDeadResult(uses, <<walkOp, resIdx>>)
  /\ resIdx' = resIdx + 1
  /\ UNCHANGED <<NDEBUG, insertionPoint, ops, uses, body, pc, run, walkOp, passVars, resultConstants, cst,
                 sweepIdx, hist>>

\* foldOperation, lines 82-84: builder.create<ConstantOp> before op, with
\* op's location, the result's type and resultConstants[i]; push_back.
Materialize ==
  /\ pc = "results"
  /\ resIdx <= getNumResults(ops[walkOp].kind)
  /\ ~isDeadResult(uses, <<walkOp, resIdx>>)
  /\ resIdx <= Len(resultConstants)
  /\ LET id == nextId
         g == NewOp([ops |-> ops, uses |-> uses], id,
                    [kind |-> "const",
                     value |-> payloadOfResult(resultConstants, resIdx),
                     loc |-> ops[walkOp].loc,
                     types |-> <<typeOfConstantFor(ops, <<walkOp, resIdx>>)>>,
                     operands |-> <<>>])
     IN  /\ ops' = g.ops
         /\ uses' = g.uses
         /\ body' = InsertBefore(body, walkOp, id)
         /\ cst' = <<id, 1>>
         /\ existingConstants' = Append(existingConstants, <<id, 1>>)
         /\ hist' = [hist EXCEPT !.folds[Len(hist.folds)].made =
                                   Append(@, [idx |-> resIdx, cst |-> <<id, 1>>])]
  /\ pc' = "replace"
  /\ UNCHANGED <<NDEBUG, insertionPoint, run, walkOp, opInstsToErase, resultConstants, resIdx, sweepIdx>>

\* foldOperation, lines 82-84 where the assertion was compiled out and
\* resultConstants has no entry i: the read is undefined.  The constant gets
\* whatever the storage holds, or the program crashes.
MaterializeOutOfBounds ==
  /\ pc = "results"
  /\ resIdx <= getNumResults(ops[walkOp].kind)
  /\ ~isDeadResult(uses, <<walkOp, resIdx>>)
  /\ resIdx > Len(resultConstants)
  /\ \/ /\ pc' = "fatal"
        /\ UNCHANGED <<ops, uses, body, cst, existingConstants, hist>>
     \/ \E payload \in UndefPayloads :
          LET id == nextId
              g == NewOp([ops |-> ops, uses |-> uses], id,
                         [kind |-> "const", value |-> payload, loc |-> ops[walkOp].loc,
                          types |-> <<typeOfConstantFor(ops, <<walkOp, resIdx>>)>>,
                          operands |-> <<>>])
          IN  /\ ops' = g.ops
              /\ uses' = g.uses
              /\ body' = InsertBefore(body, walkOp, id)
              /\ cst' = <<id, 1>>
              /\ existingConstants' = Append(existingConstants, <<id, 1>>)
              /\ hist' = [hist EXCEPT !.folds[Len(hist.folds)].made =
                                        Append(@, [idx |-> resIdx, cst |-> <<id, 1>>])]
              /\ pc' = "replace"
  /\ UNCHANGED <<NDEBUG, insertionPoint, run, walkOp, opInstsToErase, resultConstants, resIdx,
                 sweepIdx>>

\* Mutant: the uses of the result are not redirected.
ReplaceResultSkipped ==
  /\ pc = "replace"
  /\ resIdx' = resIdx + 1
  /\ pc' = "results"
  /\ UNCHANGED <<NDEBUG, insertionPoint, ops, uses, body, run, walkOp, passVars,
                 resultConstants, cst, sweepIdx, hist>>

\* foldOperation, line 85: res->replaceAllUsesWith(cst); ++i.
ReplaceResult ==
  /\ pc = "replace"
  /\ LET g == replaceAllUsesWith([ops |-> ops, uses |-> uses], <<walkOp, resIdx>>, cst)
     IN  /\ ops' = g.ops
         /\ uses' = g.uses
  /\ resIdx' = resIdx + 1
  /\ pc' = "results"
  /\ UNCHANGED <<NDEBUG, insertionPoint, body, run, walkOp, passVars, resultConstants, cst, sweepIdx, hist>>

\* Mutant: only an Operation that got a constant is queued for erasure.
FoldDoneKeepUnused ==
  /\ pc = "results"
  /\ resIdx > getNumResults(ops[walkOp].kind)
  /\ opInstsToErase' = IF hist.folds[Len(hist.folds)].made = <<>>
                          THEN opInstsToErase
                          ELSE Append(opInstsToErase, walkOp)
  /\ walkOp' = walkNext(body, walkOp)
  /\ pc' = pcAfterVisit(walkOp', opInstsToErase')
  /\ UNCHANGED <<NDEBUG, insertionPoint, ops, uses, body, run, existingConstants, foldVars,
                 sweepIdx, hist>>

\* Mutant: the folded Operation is erased on the spot instead of being queued.
FoldDoneEraseNow ==
  /\ pc = "results"
  /\ resIdx > getNumResults(ops[walkOp].kind)
  /\ LET g == erase([ops |-> ops, uses |-> uses, body |-> body], walkOp)
     IN  /\ uses' = g.uses
         /\ body' = g.body
  /\ walkOp' = walkNext(body, walkOp)
  /\ pc' = pcAfterVisit(walkOp', opInstsToErase)
  /\ UNCHANGED <<NDEBUG, insertionPoint, ops, run, passVars, foldVars, sweepIdx, hist>>

\* foldOperation, line 90: opInstsToErase.push_back(op); the walk goes on.
FoldDone ==
  /\ pc = "results"
  /\ resIdx > getNumResults(ops[walkOp].kind)
  /\ opInstsToErase' = Append(opInstsToErase, walkOp)
  /\ walkOp' = walkNext(body, walkOp)
  /\ pc' = pcAfterVisit(walkOp', opInstsToErase')
  /\ UNCHANGED <<NDEBUG, insertionPoint, ops, uses, body, run, existingConstants, foldVars, sweepIdx, hist>>

\* runOnFunction, lines 107-109: op->erase() for the next folded Operation.
EraseFolded ==
  /\ pc = "erase"
  /\ sweepIdx <= Len(opInstsToErase)
  /\ LET op == opInstsToErase[sweepIdx]
         g == erase([ops |-> ops, uses |-> uses, body |-> body], op)
     IN  /\ uses' = g.uses
         /\ body' = g.body
         /\ hist' = [hist EXCEPT !.erased = Append(@, ErasedRecord(g, op))]
  /\ IF sweepIdx < Len(opInstsToErase)
       THEN pc' = "erase" /\ sweepIdx' = sweepIdx + 1
       ELSE pc' = "sweep" /\ sweepIdx' = 1
  /\ UNCHANGED <<NDEBUG, insertionPoint, ops, run, walkOp, passVars, foldVars>>

\* runOnFunction, lines 113-116: a constant without uses is erased.
SweepDeadConstant ==
  /\ pc = "sweep"
  /\ sweepIdx <= Len(existingConstants)
  /\ constantIsDead(uses, existingConstants[sweepIdx])
  /\ LET op == getDefiningOp(existingConstants[sweepIdx])
         g == erase([ops |-> ops, uses |-> uses, body |-> body], op)
     IN  /\ uses' = g.uses
         /\ body' = g.body
         /\ hist' = [hist EXCEPT !.erased = Append(@, ErasedRecord(g, op))]
  /\ sweepIdx' = sweepIdx + 1
  /\ UNCHANGED <<NDEBUG, insertionPoint, ops, pc, run, walkOp, passVars, foldVars>>

\* runOnFunction, lines 113-114: a constant with uses stays.
SweepLiveConstant ==
  /\ pc = "sweep"
  /\ sweepIdx <= Len(existingConstants)
  /\ ~constantIsDead(uses, existingConstants[sweepIdx])
  /\ sweepIdx' = sweepIdx + 1
  /\ UNCHANGED <<NDEBUG, insertionPoint, ops, uses, body, pc, run, walkOp, passVars, foldVars, hist>>

\* runOnFunction returns.
RunDone ==
  /\ pc = "sweep"
  /\ sweepIdx > Len(existingConstants)
  /\ pc' = "done"
  /\ run' = run + 1
  /\ hist' = [hist EXCEPT !.post = IF @ = <<>> THEN <<Snapshot>>
                                      ELSE <<@[Len(@)], Snapshot>>]
  /\ UNCHANGED <<NDEBUG, insertionPoint, ops, uses, body, walkOp, passVars, foldVars, sweepIdx>>

\* a was created no later than b.
NotAfter(a, b) == a[1] < b[1] \/ (a[1] = b[1] /\ a[2] <= b[2])

\* The operands the client gives a new Operation of kind k.  The two
\* operands of add come in the order of their creation: add commutes and the
\* pass treats all operand slots alike.
OperandChoices(k) ==
  IF getNumOperands(k) = 2
    THEN {c \in Values(ops, body) \X Values(ops, body) : NotAfter(c[1], c[2])}
    ELSE {<<a>> : a \in Values(ops, body)}

\* The steps of a run of the pass.
RunStep ==
  \/ StartRun
  \/ VisitConstant
  \/ FoldDeclined
  \/ FoldSucceeded
  \/ SkipDeadResult
  \/ Materialize
  \/ ReplaceResult
  \/ FoldDone
  \/ EraseFolded
  \/ SweepDeadConstant
  \/ SweepLiveConstant
  \/ RunDone

\* The steps of runOnFunction once it has been called: it runs to its end
\* without suspension.
RunToCompletion ==
  \/ VisitConstant
  \/ FoldDeclined
  \/ FoldSucceeded
  \/ SkipDeadResult
  \/ Materialize
  \/ ReplaceResult
  \/ FoldDone
  \/ EraseFolded
  \/ SweepDeadConstant
  \/ SweepLiveConstant
  \/ RunDone

\* Functions of Operations whose fold hooks keep the arity contract.
Next ==
  \/ BuildConstant
  \/ \E k \in Kinds \ ({"const"} \cup BrokenKinds) : \E operands \in OperandChoices(k) :
       BuildOperation(k, operands)
  \/ RunStep

Spec == Init /\ [][Next]_vars

\* The client builds a function and runs the pass on it.
NextLive ==
  \/ BuildConstant
  \/ \E k \in Kinds \ ({"const"} \cup BrokenKinds) : \E operands \in OperandChoices(k) :
       BuildOperation(k, operands)
  \/ (run = 0 /\ StartRun)
  \/ RunToCompletion

\* One run on every function of Spec, with the synchronous execution of a
\* run: a run that has begun keeps taking steps.  Nothing obliges the client
\* to build or to run.
SpecLive == Init /\ [][NextLive]_vars /\ WF_vars(RunToCompletion)

\* Functions that may hold an Operation whose fold hook breaks the contract,
\* in either build.
InitBroken == InitGraph /\ NDEBUG \in BOOLEAN

NextBroken ==
  \/ BuildConstant
  \/ \E k \in {"dim"} \cup BrokenKinds : \E operands \in OperandChoices(k) :
       BuildOperation(k, operands)
  \/ RunStep
  \/ FoldAssertFailed
  \/ MaterializeOutOfBounds

SpecBroken == InitBroken /\ [][NextBroken]_vars

----------------------------------------------------------------------------
\* A client of the graph calls replaceAllUsesWith on two distinct Values.

ClientReplace(old, new) ==
  /\ pc = "build"
  /\ old # new
  /\ LET g == replaceAllUsesWith([ops |-> ops, uses |-> uses], old, new)
     IN  /\ ops' = g.ops
         /\ uses' = g.uses
  /\ pc' = "replaced"
  /\ hist' = [hist EXCEPT !.rauw = [old |-> old, new |-> new, pre |-> Snapshot]]
  /\ UNCHANGED <<NDEBUG, insertionPoint, body, run, walkOp, passVars, foldVars, sweepIdx>>

NextReplace ==
  \/ BuildConstant
  \/ \E k \in {"add", "pair"} : \E operands \in OperandChoices(k) :
       BuildOperation(k, operands)
  \/ \E old \in Values(ops, body) : \E new \in Values(ops, body) :
       ClientReplace(old, new)

\* The ledgers do not depend on where the Operations are in the body.
InitReplace == Init /\ insertionPoint = "end"

SpecReplace == InitReplace /\ [][NextReplace]_vars

----------------------------------------------------------------------------
\* Properties

RECURSIVE SumOver(_, _)
SumOver(f, S) ==
  IF S = {} THEN 0
  ELSE LET x == CHOOSE y \in S : TRUE IN Cardinality(f[x]) + SumOver(f, S \ {x})

\* The number of Use records in all ledgers.
TotalUses(u) == SumOver(u, DOMAIN u)

\* C1. Ledger consistency: in every state, for every Value V and every
\* operand slot U of the graph, U is in V's ledger exactly when U's slot
\* references V, and a ledger holds nothing but slots of the graph.
LedgerConsistency ==
  /\ \A v \in Values(ops, body) : \A u \in uses[v] :
       u[1] \in Range(body) /\ SlotValue(ops, u) = v
  /\ \A op \in Range(body) : \A j \in 1..Len(ops[op].operands) :
       LET v == ops[op].operands[j]
       IN  v \in Values(ops, body) => <<op, j>> \in uses[v]

\* A fold is between its steps: the constant made for a result has taken
\* over the uses of that result, and the folded Operation is still there.
LedgerConsistencyWitness ==
  /\ pc = "results"
  /\ resIdx > 1
  /\ cst # Arg
  /\ Cardinality(uses[cst]) >= 2
  /\ walkOp \in Range(body)

\* C2. Replace completeness: after replaceAllUsesWith(V, W) with V # W, V's
\* ledger is empty, every slot that referenced V references W and is in W's
\* ledger, every other slot references what it did, and the number of Use
\* records is what it was.
ReplaceCompleteness ==
  pc = "replaced" =>
    LET before == hist.rauw.pre
        V == hist.rauw.old
        W == hist.rauw.new
    IN  /\ uses[V] = {}
        /\ \A s \in Slots(before.ops, before.body) :
             IF SlotValue(before.ops, s) = V
               THEN SlotValue(ops, s) = W /\ s \in uses[W]
               ELSE SlotValue(ops, s) = SlotValue(before.ops, s)
        /\ TotalUses(uses) = TotalUses(before.uses)

\* V had several uses and W had uses of its own.
ReplaceCompletenessWitness ==
  /\ pc = "replaced"
  /\ Cardinality(hist.rauw.pre.uses[hist.rauw.old]) >= 2
  /\ hist.rauw.pre.uses[hist.rauw.new] # {}
  /\ hist.rauw.pre.uses[hist.rauw.new] # uses[hist.rauw.new]

\* Whether a Value is the result of a constant-producing Operation.
DefinedByConstant(v) == getDefiningOp(v) # 0 /\ ops[getDefiningOp(v)].kind = "const"

AllConstant(operands) == \A j \in 1..Len(operands) : DefinedByConstant(operands[j])

\* The payloads constantFold is to receive for these operands.
ConstantPayloads(operands) ==
  [j \in 1..Len(operands) |->
     IF DefinedByConstant(operands[j]) THEN ops[getDefiningOp(operands[j])].value
     ELSE NoCst]

FoldRecords == Range(hist.folds)

ErasedOps == {e.op : e \in Range(hist.erased)}

\* C3. Fold soundness: when a run is over, an Operation that was folded with
\* all its operands constant is out of the function, and every slot that
\* referenced its result i and whose owner remains references a constant
\* Operation of the function carrying payload i of the fold.
FoldSoundness ==
  pc = "done" =>
    \A f \in FoldRecords :
      AllConstant(f.operands) =>
        /\ f.op \notin Range(body)
        /\ \A i \in f.used : \A s \in f.users[i] :
             s[1] \in Range(body) =>
               LET v == SlotValue(ops, s)
               IN  /\ DefinedByConstant(v)
                   /\ getDefiningOp(v) \in Range(body)
                   /\ ops[getDefiningOp(v)].value =
                        constantFold(ops[f.op].kind, ConstantPayloads(f.operands)).results[i]

\* A fold with constant operands whose second result is read by an Operation
\* that outlives the run.
FoldSoundnessWitness ==
  /\ pc = "done"
  /\ \E f \in FoldRecords :
       /\ AllConstant(f.operands)
       /\ f.operands # <<>>
       /\ 2 \in f.used
       /\ \E s \in f.users[2] : s[1] \in Range(body)

\* Operations of the body at the start of the run that need all operands
\* constant to fold and had a non-constant operand then.
BlockedAtStart ==
  {op \in Range(hist.pre.body) :
     /\ RequiresAllConstant(hist.pre.ops[op].kind)
     /\ ~AllConstant(hist.pre.ops[op].operands)}

\* C4 as stated: an Operation with a non-constant operand when the run begins
\* is there after the run, with the same operands and the same uses of its
\* results.
NonInterferenceAtRunStart ==
  pc = "done" =>
    \A op \in BlockedAtStart :
      /\ op \in Range(body)
      /\ ops[op] = hist.pre.ops[op]
      /\ \A r \in getResults(ops, op) : uses[r] = hist.pre.uses[r]

\* The constant the run made for the Value old is new.
ReplacedBy(old, new) ==
  \E f \in FoldRecords :
    /\ f.op = getDefiningOp(old)
    /\ \E k \in 1..Len(f.made) : f.made[k].idx = old[2] /\ f.made[k].cst = new

\* C4, amended. An Operation that needs all operands constant and has a
\* non-constant operand when the walk visits it is there after the run with
\* its kind, location, result types and number of operands; each operand
\* slot references what it did before the run or the constant the run made
\* for that Value; each result has the uses it had, less the slots of the
\* Operations the run erased.
NonInterference ==
  pc = "done" =>
    \A d \in Range(hist.visited) :
      LET op == d.op
          was == hist.pre.ops[op]
      IN  (RequiresAllConstant(was.kind) /\ ~AllConstant(d.operands)) =>
            /\ op \in Range(body)
            /\ ops[op].kind = was.kind
            /\ ops[op].loc = was.loc
            /\ ops[op].types = was.types
            /\ Len(ops[op].operands) = Len(was.operands)
            /\ \A j \in 1..Len(was.operands) :
                 \/ ops[op].operands[j] = was.operands[j]
                 \/ ReplacedBy(was.operands[j], ops[op].operands[j])
            /\ \A r \in getResults(ops, op) :
                 uses[r] = {s \in hist.pre.uses[r] : s[1] \notin ErasedOps}

\* An Operation with a non-constant operand was left alone, with another
\* operand redirected to a constant of this run.
NonInterferenceWitness ==
  /\ pc = "done"
  /\ \E d \in Range(hist.visited) :
       /\ RequiresAllConstant(ops[d.op].kind)
       /\ ~AllConstant(d.operands)
       /\ ops[d.op].operands # hist.pre.ops[d.op].operands

\* A result of such an Operation lost a use to an erased Operation.
NonInterferenceLostUse ==
  /\ pc = "done"
  /\ \E d \in Range(hist.visited) :
       /\ RequiresAllConstant(ops[d.op].kind)
       /\ ~AllConstant(d.operands)
       /\ \E r \in getResults(ops, d.op) : uses[r] # hist.pre.uses[r]

\* Constant Operations of the body without uses when the run began.
DeadAtStart ==
  {op \in Range(hist.pre.body) :
     hist.pre.ops[op].kind = "const" /\ hist.pre.uses[<<op, 1>>] = {}}

\* C5. Dead-constant removal: a constant Operation whose result has no uses
\* when a run begins is out of the function when the run ends.
DeadConstantRemoval ==
  pc = "done" => \A op \in DeadAtStart : op \notin Range(body)

\* A run that folded nothing and had a dead constant to remove.
DeadConstantRemovalWitness ==
  /\ pc = "done"
  /\ DeadAtStart # {}
  /\ hist.folds = <<>>
  /\ body # <<>>

DeadConstants(g) ==
  {op \in Range(g.body) : g.ops[op].kind = "const" /\ g.uses[<<op, 1>>] = {}}

\* C6. When a run ends no constant Operation without uses is in the function.
NoDeadConstantSurvives ==
  pc = "done" => DeadConstants(Snapshot) = {}

\* A constant that had uses when the run began, all of them operands of
\* Operations folded in the run, and a constant made in the run that served
\* only a later fold: both are gone.
NoDeadConstantSurvivesWitness ==
  /\ pc = "done"
  /\ \E op \in Range(hist.pre.body) \ Range(body) :
       hist.pre.ops[op].kind = "const" /\ hist.pre.uses[<<op, 1>>] # {}
  /\ \E f \in FoldRecords : \E k \in 1..Len(f.made) :
       getDefiningOp(f.made[k].cst) \notin Range(body)

Converged ==
  /\ run >= 3 => hist.post[2] = hist.post[1]
  /\ (run = 2 /\ DeadConstants(hist.post[1]) = {}) =>
       /\ hist.post[2] = hist.post[1]
       /\ hist.folds = <<>>
       /\ hist.erased = <<>>

\* C7 as stated, for every function body: the graph after the third run is
\* the graph after the second; and when the first run left no dead
\* constant, the second run folds nothing, makes nothing, erases nothing and
\* leaves the graph as the first run left it.
ConvergenceAnyBody == pc = "done" => Converged

\* The walk comes to every Operation after the Operations that define its
\* operands.
DefBeforeUse(g) ==
  \A p \in 1..Len(g.body) : \A j \in 1..Len(g.ops[g.body[p]].operands) :
    LET d == getDefiningOp(g.ops[g.body[p]].operands[j])
    IN  d = 0 \/ \E q \in 1..(p - 1) : g.body[q] = d

\* C7, amended: the same, for every function body in which each Operation
\* comes in the walk after the Operations that define its operands.
Convergence == (pc = "done" /\ DefBeforeUse(hist.initial)) => Converged

\* Three runs are over and the first one folded a chain: a constant made for
\* a fold is in the body, another one was erased.
ConvergenceWitness ==
  /\ pc = "done"
  /\ run >= 3
  /\ DefBeforeUse(hist.initial)
  /\ \E id \in Range(body) : ops[id].kind = "const" /\ ops[id].loc # id
  /\ \E id \in DOMAIN ops \ Range(body) : ops[id].kind = "const" /\ ops[id].loc # id

\* The walk is at an Operation that is no constant and whose constantFold
\* declines.
DeclinesNow ==
  /\ pc = "walk"
  /\ walkOp # 0
  /\ ops[walkOp].kind # "const"
  /\ ~constantFold(ops[walkOp].kind, ConstantPayloads(ops[walkOp].operands)).ok

\* foldOperation is in the loop over the results of an Operation whose
\* constantFold succeeded with one payload per result.
InSuccessfulFold ==
  /\ hist.folds # <<>>
  /\ LET f == hist.folds[Len(hist.folds)]
         folded == constantFold(ops[f.op].kind, ConstantPayloads(f.operands))
     IN  /\ f.op = walkOp
         /\ folded.ok
         /\ Len(folded.results) = getNumResults(ops[f.op].kind)

\* C8. No partial mutation on decline: a foldOperation step on a non-constant
\* Operation whose constantFold declines leaves the Operations, the ledgers,
\* the body and both worklists as they were; and during the walk the graph
\* changes only inside the fold of an Operation whose constantFold succeeded
\* with one payload per result.
NoPartialMutation ==
  [][/\ DeclinesNow =>
          UNCHANGED <<ops, uses, body, existingConstants, opInstsToErase>>
     /\ (pc \in {"walk", "results", "replace"} /\ <<ops, uses, body>>' # <<ops, uses, body>>)
          => InSuccessfulFold]_vars

\* The walk has passed an Operation that declined although one of its
\* operands was a constant, after a successful fold changed the graph.
NoPartialMutationWitness ==
  /\ pc = "walk"
  /\ hist.folds # <<>>
  /\ \E d \in Range(hist.visited) :
       /\ d.op \notin {f.op : f \in FoldRecords}
       /\ ~AllConstant(d.operands)
       /\ \E j \in 1..Len(d.operands) : DefinedByConstant(d.operands[j])

\* C9. Constants only for used results: an Operation that was folded got one
\* constant for each of its results that had a use when it was folded, none
\* for the others, and each of these constants is in existingConstants once.
ConstantsOnlyForUsedResults ==
  \A f \in FoldRecords :
    f.op \in Range(opInstsToErase) =>
      /\ Len(f.made) = Cardinality(f.used)
      /\ {f.made[k].idx : k \in 1..Len(f.made)} = f.used
      /\ \A k \in 1..Len(f.made) :
           /\ ops[getDefiningOp(f.made[k].cst)].kind = "const"
           /\ Cardinality({n \in 1..Len(existingConstants) :
                             existingConstants[n] = f.made[k].cst}) = 1

\* A folded Operation with two results, one used and one not.
ConstantsOnlyForUsedResultsWitness ==
  \E f \in FoldRecords :
    /\ f.op \in Range(opInstsToErase)
    /\ getNumResults(ops[f.op].kind) = 2
    /\ Cardinality(f.used) = 1
    /\ Len(f.made) = 1

\* C10. Erase safety: when an Operation is erased no slot of an Operation
\* still in the function references one of its results; after a run every
\* slot of the function references the argument or a result of an Operation
\* of the function.
EraseSafety ==
  /\ \A e \in Range(hist.erased) : e.dangling = {}
  /\ pc = "done" =>
       \A s \in Slots(ops, body) :
         \/ getDefiningOp(SlotValue(ops, s)) = 0
         \/ getDefiningOp(SlotValue(ops, s)) \in Range(body)

\* Both sweeps erased something and an Operation reading a constant is left.
EraseSafetyWitness ==
  /\ pc = "done"
  /\ \E e \in Range(hist.erased) : ops[e.op].kind # "const"
  /\ \E e \in Range(hist.erased) : ops[e.op].kind = "const"
  /\ \E s \in Slots(ops, body) : DefinedByConstant(SlotValue(ops, s))

\* The Operations that leave the body in this step.
ErasedInStep == Range(body) \ Range(body')

\* C11. Deferred deletion ordering: an Operation leaves the body only after
\* the walk has gone past its last Operation; the entries of opInstsToErase
\* are erased in the first loop, before the sweep of the dead constants has
\* erased anything, and that sweep erases constants of existingConstants
\* only; the sweep is begun once the first loop is through, goes over
\* existingConstants once from the first entry to the last, and the run ends
\* from it and from nowhere else.
DeferredDeletionOrdering ==
  [][/\ ErasedInStep # {} =>
          /\ walkOp = 0
          /\ pc \in {"erase", "sweep"}
          /\ pc = "erase" =>
               /\ ErasedInStep = {opInstsToErase[sweepIdx]}
               /\ ErasedOps \subseteq Range(opInstsToErase)
          /\ pc = "sweep" =>
               /\ ErasedInStep = {getDefiningOp(existingConstants[sweepIdx])}
               /\ Range(opInstsToErase) \cap Range(body) = {}
     /\ (pc # "sweep" /\ pc' = "sweep") =>
          /\ walkOp' = 0
          /\ sweepIdx' = 1
          /\ Range(opInstsToErase') \cap Range(body') = {}
     /\ pc = "sweep" =>
          /\ pc' \in {"sweep", "done"}
          /\ pc' = "sweep" => sweepIdx' = sweepIdx + 1
     /\ pc' = "done" => (pc = "sweep" /\ sweepIdx = Len(existingConstants) + 1)]_vars

\* The sweep of the dead constants has erased one, after the first loop
\* erased two folded Operations.
DeferredDeletionOrderingWitness ==
  /\ pc = "sweep"
  /\ sweepIdx > 1
  /\ Len(opInstsToErase) >= 2
  /\ Len(hist.erased) > Len(opInstsToErase)

\* The walk is at an Operation that is no constant and whose constantFold
\* succeeds with a number of payloads that is not its number of results.
WrongArityNow ==
  /\ pc = "walk"
  /\ walkOp # 0
  /\ ops[walkOp].kind # "const"
  /\ LET folded == constantFold(ops[walkOp].kind, ConstantPayloads(ops[walkOp].operands))
     IN  folded.ok /\ Len(folded.results) # getNumResults(ops[walkOp].kind)

\* The step ends the program with the graph and the worklists as they were.
FatalAndUntouched ==
  /\ pc' = "fatal"
  /\ UNCHANGED <<ops, uses, body, existingConstants, opInstsToErase, walkOp>>

\* C12 as stated, for every build: the step of foldOperation on an Operation
\* whose constantFold returns the wrong number of payloads is fatal and
\* changes nothing, and nothing happens after a fatal step.
ArityMismatchFatalAnyBuild ==
  [][/\ WrongArityNow => FatalAndUntouched
     /\ pc # "fatal"]_vars

\* C12, amended: in a build that keeps assert (NDEBUG not defined), the step
\* of foldOperation on an Operation whose constantFold succeeds with a number
\* of payloads different from its number of results is fatal: no constant is
\* made and no use redirected for that Operation, the worklists stay as they
\* are, and no step follows: not the next Operation, not the two loops.
ArityMismatchFatal ==
  [][/\ (WrongArityNow /\ ~NDEBUG) => FatalAndUntouched
     /\ pc # "fatal"]_vars

\* The assertion stopped the run at an Operation with too few payloads whose
\* results have uses, after an earlier fold made a constant and queued its
\* Operation: that one is still in the body.
ArityMismatchFatalWitness ==
  /\ pc = "fatal"
  /\ ~NDEBUG
  /\ ops[walkOp].kind = "short"
  /\ ~use_empty(uses, <<walkOp, 2>>)
  /\ opInstsToErase # <<>>
  /\ Range(opInstsToErase) \subseteq Range(body)
  /\ existingConstants # <<>>

\* The constant the fold f made for result i.
MadeFor(f, i) == (CHOOSE m \in Range(f.made) : m.idx = i).cst

\* C13. Chain folding within one walk: when foldOperation comes to an
\* Operation B after it folded an Operation A in the same walk, every operand
\* slot of B that referenced result i of A when A was folded references the
\* constant made for that result, and constantFold is given payload i of A's
\* fold for it; and constantFold is given no constant for exactly the
\* operands of B that, at that moment, have no defining Operation or one that
\* is no constant.
ChainFolding ==
  \A q \in 1..Len(hist.visited) :
    LET B == hist.visited[q]
    IN  /\ \A j \in 1..Len(B.operands) :
             B.received[j] = NoCst <=> ~DefinedByConstant(B.operands[j])
        /\ \A p \in 1..(q - 1) : \A f \in FoldRecords :
             f.op = hist.visited[p].op =>
               \A i \in f.used : \A s \in f.users[i] :
                 s[1] = B.op =>
                   /\ B.operands[s[2]] = MadeFor(f, i)
                   /\ B.received[s[2]] =
                        constantFold(ops[f.op].kind, ConstantPayloads(f.operands)).results[i]

\* An Operation was given no constant for the argument and, for its other
\* operand, the second payload of a fold made earlier in the walk.
ChainFoldingWitness ==
  \E f \in FoldRecords : \E B \in Range(hist.visited) :
    /\ f.used = {2}
    /\ {m.idx : m \in Range(f.made)} = {2}
    /\ B.operands = <<Arg, MadeFor(f, 2)>>
    /\ B.received = <<NoCst, ops[getDefiningOp(f.operands[1])].value + 1>>

\* How often x is in the sequence s.
Count(s, x) == Cardinality({n \in 1..Len(s) : s[n] = x})

\* Whether constantFold succeeded for the visited Operation d.
FoldSucceededFor(d) == constantFold(ops[d.op].kind, d.received).ok

\* foldOperation is still in the loop over the results of the Operation d.
InFoldOf(d) == pc \in {"results", "replace"} /\ d.op = walkOp

\* C14. Unconditional erase of folded Operations: once foldOperation has
\* returned, an Operation for which constantFold succeeded is in
\* opInstsToErase exactly once, whether or not a constant was made for it, and
\* one for which constantFold failed is not in it; when the run ends every
\* Operation for which constantFold succeeded is out of the function.
UnconditionalErase ==
  \A d \in Range(hist.visited) :
    /\ ~InFoldOf(d) =>
         Count(opInstsToErase, d.op) = (IF FoldSucceededFor(d) THEN 1 ELSE 0)
    /\ (pc = "done" /\ FoldSucceededFor(d)) => d.op \notin Range(body)

\* A run is over that folded an Operation none of whose results had a use,
\* made no constant, erased that Operation and left one that declined.
UnconditionalEraseWitness ==
  /\ pc = "done"
  /\ \E f \in FoldRecords : f.used = {} /\ f.made = <<>> /\ f.op \notin Range(body)
  /\ \E d \in Range(hist.visited) : ~FoldSucceededFor(d) /\ d.op \in Range(body)
  /\ existingConstants = <<>>

\* The walk is at a constant Operation.
AtConstant == pc = "walk" /\ walkOp # 0 /\ ops[walkOp].kind = "const"

\* The second loop of runOnFunction is at a constant whose result has a use.
AtLiveConstant ==
  /\ pc = "sweep"
  /\ sweepIdx <= Len(existingConstants)
  /\ uses[existingConstants[sweepIdx]] # {}

\* C15. Constants are never folded and live constants survive: the step of
\* foldOperation on a constant Operation does not call constantFold, leaves
\* opInstsToErase and the graph as they are and appends the constant to
\* existingConstants; no constant Operation is ever in opInstsToErase; and
\* the step of the second loop on a constant whose result has a use leaves
\* the graph as it is: the constant stays in the body with its payload and
\* its type.
ConstantsKept ==
  [][/\ AtConstant =>
          /\ hist'.visited = hist.visited
          /\ hist'.folds = hist.folds
          /\ existingConstants' = Append(existingConstants, <<walkOp, 1>>)
          /\ UNCHANGED <<ops, uses, body, opInstsToErase>>
     /\ \A op \in Range(opInstsToErase') : ops'[op].kind # "const"
     /\ AtLiveConstant =>
          /\ getDefiningOp(existingConstants[sweepIdx]) \in Range(body')
          /\ UNCHANGED <<ops, uses, body>>]_vars

\* A run is over in which the second loop erased a constant that was in the
\* function before the run and kept one made in the run, which has a use.
ConstantsKeptWitness ==
  /\ pc = "done"
  /\ \E c \in Range(existingConstants) :
       /\ getDefiningOp(c) \in Range(hist.pre.body)
       /\ getDefiningOp(c) \notin Range(body)
  /\ \E c \in Range(existingConstants) :
       /\ getDefiningOp(c) \notin Range(hist.pre.body)
       /\ getDefiningOp(c) \in Range(body)
       /\ uses[c] # {}

\* A run has begun and the pass has not run again since.
InRun == pc \in {"walk", "results", "replace", "erase", "sweep", "done"}

\* The Operations this run can have collected: those of the body when the
\* run began and the constants the run made.
CollectedInRun ==
  Range(hist.pre.body) \cup
    {getDefiningOp(m.cst) : m \in UNION {Range(f.made) : f \in FoldRecords}}

\* The Operations the pass instance holds a reference to.
HeldByPass ==
  Range(opInstsToErase) \cup {getDefiningOp(c) : c \in Range(existingConstants)}

\* C16 as stated: when a run has finished the two worklists hold nothing.
WorklistsReleasedAtRunEnd ==
  pc = "done" => (existingConstants = <<>> /\ opInstsToErase = <<>>)

\* C16, amended: the worklists are released when the next run begins, not
\* when the run ends.  From the start of a run until the next one the pass
\* instance holds references to Operations collected in that run only; and
\* when the run has finished it still holds them: opInstsToErase holds the
\* Operations the run folded, all of them erased.
WorklistsReleasedAtRunStart ==
  /\ InRun => HeldByPass \subseteq CollectedInRun
  /\ pc = "done" =>
       /\ Range(opInstsToErase) = {f.op : f \in FoldRecords}
       /\ Range(opInstsToErase) \cap Range(body) = {}

\* The second run is in its second loop with a constant in its list, and the
\* first run erased Operations it had collected.
WorklistsReleasedAtRunStartWitness ==
  /\ run = 1
  /\ pc = "sweep"
  /\ existingConstants # <<>>
  /\ Range(hist.initial.body) \ Range(hist.pre.body) # {}

\* The sequence has no entry twice.
NoDuplicates(s) == \A m, n \in 1..Len(s) : s[m] = s[n] => m = n

\* The entries the loop at position from has still to come to.
Pending(s, from) == {s[n] : n \in from..Len(s)}

\* C17. No double erase: whatever the number of runs, every Operation the
\* walk or one of the two loops is still to come to is in the function, so
\* that no Operation is examined after it was erased or erased twice; the
\* Operations erased in a run are distinct; opInstsToErase and
\* existingConstants have no entry twice and no Operation in common; and
\* they hold Operations collected in the same run only.
NoDoubleErase ==
  /\ (pc \in {"walk", "results", "replace"} /\ walkOp # 0) =>
       (walkOp \in Range(body) /\ HeldByPass \subseteq Range(body))
  /\ pc = "erase" =>
       /\ Pending(opInstsToErase, sweepIdx) \subseteq Range(body)
       /\ {getDefiningOp(c) : c \in Range(existingConstants)} \subseteq Range(body)
  /\ pc = "sweep" =>
       {getDefiningOp(c) : c \in Pending(existingConstants, sweepIdx)} \subseteq Range(body)
  /\ NoDuplicates([n \in 1..Len(hist.erased) |-> hist.erased[n].op])
  /\ NoDuplicates(opInstsToErase)
  /\ NoDuplicates(existingConstants)
  /\ Range(opInstsToErase) \cap {getDefiningOp(c) : c \in Range(existingConstants)} = {}
  /\ InRun => HeldByPass \subseteq CollectedInRun

\* The second run of the pass instance has erased a folded Operation and a
\* constant, after the first run erased Operations of its own.
NoDoubleEraseWitness ==
  /\ run = 2
  /\ pc = "done"
  /\ opInstsToErase # <<>>
  /\ Len(hist.erased) > Len(opInstsToErase)
  /\ Range(hist.initial.body) \ Range(hist.pre.body) # {}

\* C18. Type preservation under the pass: every constant the pass has made
\* has the type of the result it was made for, and in every state of a run
\* each operand slot of an Operation that was in the function when the run
\* began and still is references a Value of the type of the Value it
\* referenced then.
TypePreservation ==
  /\ \A f \in FoldRecords : \A m \in Range(f.made) :
       getType(ops, m.cst) = getType(hist.pre.ops, <<f.op, m.idx>>)
  /\ InRun =>
       \A op \in Range(body) \cap Range(hist.pre.body) :
         \A j \in 1..Len(hist.pre.ops[op].operands) :
           getType(ops, ops[op].operands[j]) =
             getType(hist.pre.ops, hist.pre.ops[op].operands[j])

\* An Operation that remains reads a constant made for the second result of
\* a folded Operation, whose type is not that of the first.
TypePreservationWitness ==
  /\ pc = "done"
  /\ \E f \in FoldRecords : \E m \in Range(f.made) :
       /\ m.idx = 2
       /\ getType(ops, m.cst) = "i1"
       /\ getType(ops, <<f.op, 1>>) # "i1"
       /\ \E s \in uses[m.cst] : s[1] \in Range(body)

\* runOnFunction has been called and has not returned.
Running == pc \in {"walk", "results", "replace", "erase", "sweep"}

\* The Operations foldOperation was called on in this run, in order of the
\* calls of each kind: the constants the walk came to are the entries of
\* existingConstants the run did not make itself.
MadeInRun == {m.cst : m \in UNION {Range(f.made) : f \in FoldRecords}}

VisitedConstants == {getDefiningOp(c) : c \in Range(existingConstants) \ MadeInRun}

VisitedOthers == {d.op : d \in Range(hist.visited)}

\* The walk visits every Operation at most once, only Operations of the body
\* at the start of the run, and by its end all of them.
WalkVisitsOnce ==
  InRun =>
    /\ NoDuplicates([n \in 1..Len(hist.visited) |-> hist.visited[n].op])
    /\ NoDuplicates(existingConstants)
    /\ VisitedConstants \cap VisitedOthers = {}
    /\ VisitedConstants \cup VisitedOthers \subseteq Range(hist.pre.body)
    /\ {getDefiningOp(c) : c \in MadeInRun} \cap Range(hist.pre.body) = {}
    /\ pc \in {"erase", "sweep", "done"} =>
         VisitedConstants \cup VisitedOthers = Range(hist.pre.body)

\* When the run is done both loops are through.
LoopsThrough ==
  pc = "done" =>
    /\ Range(opInstsToErase) \cap Range(body) = {}
    /\ sweepIdx = Len(existingConstants) + 1

\* C19. Run termination: a run that has begun completes; its walk calls
\* foldOperation exactly once on each Operation that was in the body when
\* the run began and on no constant made in the run, and when the run is
\* done the loop over opInstsToErase and the loop over existingConstants
\* are through.
RunTermination ==
  /\ [](WalkVisitsOnce /\ LoopsThrough)
  /\ Running ~> (pc = "done")

\* A run is done that visited three Operations, folded two of them and made
\* a constant the walk did not come to.
RunTerminationWitness ==
  /\ pc = "done"
  /\ Cardinality(Range(hist.pre.body)) = 3
  /\ Len(hist.folds) = 2
  /\ MadeInRun # {}
  /\ VisitedConstants # {}

====
